---- MODULE Spec2Model ----
(***************************************************************************)
(* Model of the responsive-tests analysis service:                         *)
(*   src/api/main.py                    HTTP handlers and process_analysis *)
(*   src/api/agent/responsive_agent.py  the five stage tools and the agent *)
(*   src/api/database/database.py       DatabaseManager (analyses table)   *)
(*   src/api/models/models.py           the AnalysisStatus record          *)
(*                                                                         *)
(* Python strings are TLA+ strings; an f-string is the concatenation (\o)  *)
(* of its literal and interpolated pieces.  uuid4 identifiers are drawn    *)
(* fresh from JobIds.  Fields that no modelled code path reads (issue id,  *)
(* description, element, suggestion) are left out of the records; the      *)
(* created_at values are kept beside the records, in created_at.           *)
(***************************************************************************)
EXTENDS Integers, Sequences, FiniteSets, TLC

VARIABLES
    active_analyses,  \* main.py:56   dict analysis_id -> AnalysisStatus
    analyses,         \* database.py:30  the "analyses" table, id -> row
    pc,               \* position of each job's process_analysis task
    locals,           \* local variables of each running process_analysis
    save_calls,       \* history: number of db_manager.save_analysis calls per id
    raised,           \* history: the exception that reached main.py:242, per id
    issues_in,        \* input of the scoring checks: one issue list
    scores_out,       \* output of the scoring checks
    screenshots_table,\* database.py:47  the "screenshots" table, a set of rows
    created_at,       \* the created_at of each status record and of each row
    call,             \* the tool or GET handler being called, and its argument
    result            \* what that call returned

vars == <<active_analyses, analyses, pc, locals, save_calls, raised,
          issues_in, scores_out, screenshots_table, created_at, call, result>>

jobVars == <<active_analyses, analyses, pc, locals, save_calls, raised>>
scoreVars == <<issues_in, scores_out>>
callVars == <<call, result>>

-----------------------------------------------------------------------------
(* Bounds and input sets *)

MaxJobs == 2
JobIds == 1..MaxJobs

\* Longest issue list given to the scoring functions
MaxIssues == 5

Urls == {"http://site.test"}

\* Exceptions that can reach a handler: type(e).__name__ and str(e).
Exceptions == {[type |-> "RuntimeError", msg |-> "boom"]}

None == "None"

Max(a, b) == IF a >= b THEN a ELSE b

\* s contains t (Python: t in s)
Contains(s, t) ==
    \E i \in 1..(Len(s) - Len(t) + 1) : SubSeq(s, i, i + Len(t) - 1) = t

\* f"{type(e).__name__}: {e}"
ExcText(e) == e.type \o ": " \o e.msg

-----------------------------------------------------------------------------
(* responsive_agent.py: ScreenshotCaptureTool *)

\* The device table of ScreenshotCaptureTool.run, in list order.
Devices ==
    << [name |-> "mobile",  resolution |-> "375x667"],
       [name |-> "tablet",  resolution |-> "768x1024"],
       [name |-> "desktop", resolution |-> "1920x1080"],
       [name |-> "4k",      resolution |-> "3840x2160"] >>

DeviceNames == {Devices[i].name : i \in 1..Len(Devices)}

\* The dict appended for one captured device; url stands for
\* f"/screenshots/{analysis_id}_{device}_{timestamp}.png".
ScreenshotDict(analysis_id, device) ==
    [device |-> device.name, resolution |-> device.resolution,
     url |-> <<analysis_id, device.name>>]

RECURSIVE CaptureLoop(_, _, _)
\* for device in devices: try ... screenshots.append(...) except: continue
\* failing is the set of device names whose capture raises.
CaptureLoop(analysis_id, failing, i) ==
    IF i > Len(Devices) THEN <<>>
    ELSE (IF Devices[i].name \in failing
          THEN <<>>
          ELSE <<ScreenshotDict(analysis_id, Devices[i])>>)
         \o CaptureLoop(analysis_id, failing, i + 1)

\* Variant of ScreenshotCaptureTool.run that absorbs a launch failure and
\* returns an empty list.
ScreenshotCaptureTool_absorbing(analysis_id, launch_ok, failing) ==
    IF launch_ok
    THEN [raises |-> FALSE, value |-> CaptureLoop(analysis_id, failing, 1)]
    ELSE [raises |-> FALSE, value |-> <<>>]

\* ScreenshotCaptureTool.run: launch_ok is whether async_playwright() and
\* chromium.launch() succeed; when they do not, the outer handler prints and
\* re-raises (line 114), otherwise the list of captured devices is returned.
ScreenshotCaptureTool_run(analysis_id, launch_ok, failing) ==
    IF launch_ok
    THEN [raises |-> FALSE, value |-> CaptureLoop(analysis_id, failing, 1)]
    ELSE [raises |-> TRUE, value |-> <<>>]

\* ResponsiveTestingAgent.capture_screenshots: calls the tool; its handler
\* prints and re-raises (line 899).
capture_screenshots(analysis_id, launch_ok, failing) ==
    ScreenshotCaptureTool_run(analysis_id, launch_ok, failing)

-----------------------------------------------------------------------------
(* responsive_agent.py: LayoutAnalysisTool *)

\* A fetched page, as far as the four checks read it:
\*   fetch_ok  requests.get(url) returned
\*   viewport  soup.find('meta', name=viewport) found a tag
\*   sheets    the <link rel=stylesheet> tags: href form, whether a GET of
\*             the stylesheet's URL succeeds, whether the text has '@media'
\*   fixed     number of style= elements with 'width: 1024px' / 'width: 1200px'
\*   small     number of text elements with inline font-size below 12px
\*   throws    0, or the number of the check in which a statement raises
\*             (3: str(element) of a fixed-width element; 4: int() of the
\*             font-size digits, which raises ValueError above the interpreter's
\*             integer string conversion limit)
\* py is the Python type of the value: the tools build dicts.
\* odd is the set of keys whose value has an unexpected Python type; the
\* tools' own literals have none.
IssueDict(type, severity, title, device) ==
    [py |-> "dict", type |-> type, severity |-> severity, title |-> title,
     device |-> device, odd |-> {}]

ViewportIssue ==
    IssueDict("critical", 5, "Viewport Meta Tag Missing", "mobile")
MediaQueryIssue ==
    IssueDict("warning", 3, "No Media Queries Found", "all")
FixedWidthIssue ==
    IssueDict("warning", 3, "Fixed Width Elements", "mobile")
SmallTextIssue ==
    IssueDict("warning", 2, "Texto Muito Pequeno", "mobile")

Repeat(x, n) == [k \in 1..n |-> x]

\* What requests.get receives for one href: '//' gets 'https:' prefixed, '/'
\* is joined to the page URL, anything else is passed as written, so a
\* path-relative href has no scheme and requests.get raises.  A tag without
\* href ("none") is not fetched at all.
SheetFetched(sheet) ==
    /\ sheet.href \in {"absolute", "protocol-relative", "root-relative"}
    /\ sheet.reachable

RECURSIVE HasMediaQueries(_, _)
\* the stylesheet loop: True at the first fetched sheet containing '@media'
HasMediaQueries(sheets, i) ==
    IF i > Len(sheets) THEN FALSE
    ELSE IF SheetFetched(sheets[i]) /\ sheets[i].media THEN TRUE
    ELSE HasMediaQueries(sheets, i + 1)

\* Variant of LayoutAnalysisTool.run that reports only the first check that
\* finds something.
LayoutAnalysisTool_first_finding_only(page) ==
    IF ~page.fetch_ok \/ page.throws # 0 THEN <<>>
    ELSE IF ~page.viewport THEN <<ViewportIssue>>
    ELSE IF ~HasMediaQueries(page.sheets, 1) THEN <<MediaQueryIssue>>
    ELSE IF page.fixed > 0 THEN Repeat(FixedWidthIssue, page.fixed)
    ELSE Repeat(SmallTextIssue, page.small)

\* Variant of LayoutAnalysisTool.run that reports a failed fetch of the page
\* as an issue of its own.
LayoutAnalysisTool_reports_fetch_failure(page) ==
    IF ~page.fetch_ok THEN <<IssueDict("critical", 1, "Page Unreachable", "mobile")>>
    ELSE IF page.throws # 0 THEN <<>>
    ELSE (IF page.viewport THEN <<>> ELSE <<ViewportIssue>>)
         \o (IF HasMediaQueries(page.sheets, 1) THEN <<>> ELSE <<MediaQueryIssue>>)
         \o Repeat(FixedWidthIssue, page.fixed)
         \o Repeat(SmallTextIssue, page.small)

\* LayoutAnalysisTool.run: one try block around the fetch and the four checks
\* (lines 124-220); its handler (lines 222-224) returns [] whatever had been
\* appended before the exception.
LayoutAnalysisTool_run(page) ==
    IF ~page.fetch_ok THEN <<>>
    ELSE IF page.throws # 0 THEN <<>>
    ELSE (IF page.viewport THEN <<>> ELSE <<ViewportIssue>>)
         \o (IF HasMediaQueries(page.sheets, 1) THEN <<>> ELSE <<MediaQueryIssue>>)
         \o Repeat(FixedWidthIssue, page.fixed)
         \o Repeat(SmallTextIssue, page.small)

\* ResponsiveTestingAgent.analyze_layout
analyze_layout(page) == LayoutAnalysisTool_run(page)

-----------------------------------------------------------------------------
(* responsive_agent.py: VisionAnalysisTool *)

\* What the environment gives for one screenshot:
\*   exists    screenshot_path.exists()
\*   kind      "badimage" Image.open or the conversion raises (lines 256-268)
\*             "raise"   generate_content raises
\*             "badjson" response.text is not JSON (json.JSONDecodeError)
\*             "notlist" JSON that is no list at the top level: an object, a
\*                       string, a number, null
\*             "list"    a JSON list; findings are its elements
\* A finding is [dict, keys, odd, type, severity, title]: dict is whether the
\* element is a JSON object, keys the keys it has, odd the keys whose value
\* has a Python type the later stages cannot handle (a title that is no str,
\* a severity that is no number).
Get(finding, key, default) ==
    IF key \in finding.keys THEN finding[key] ELSE default

PlaceholderIssue(device) ==
    IssueDict("info", 4, "Visão IA indisponível", device)
FallbackIssue(device) ==
    IssueDict("info", 4, "Análise Visual Completa", device)

RECURSIVE FindingsLoop(_, _, _)
\* for issue in vision_issues: issues.append({...issue.get(...)...}); an element
\* without .get raises into the per-screenshot handler, which keeps what was
\* appended before it.
FindingsLoop(findings, device, i) ==
    IF i > Len(findings) THEN <<>>
    ELSE IF ~findings[i].dict THEN <<>>
    ELSE <<[IssueDict(Get(findings[i], "type", "warning"),
                      Get(findings[i], "severity", 3),
                      Get(findings[i], "title", "Problema Visual"),
                      device)
              EXCEPT !.odd = findings[i].odd \cap findings[i].keys]>>
         \o FindingsLoop(findings, device, i + 1)

\* Variant of the per-screenshot block that tests self.model before it looks
\* for the file.
VisionIssuesFor_model_first(screenshot, model, reply) ==
    IF ~model THEN <<PlaceholderIssue(screenshot.device)>>
    ELSE IF ~reply.exists \/ reply.kind = "badimage" THEN <<>>
    ELSE CASE reply.kind = "raise"   -> <<>>
           [] reply.kind = "badjson" -> <<FallbackIssue(screenshot.device)>>
           [] reply.kind = "notlist" -> <<>>
           [] reply.kind = "list"    ->
                FindingsLoop(reply.findings, screenshot.device, 1)

\* The body of the per-screenshot try block (lines 248-346): the file is
\* looked for and opened before self.model is tested.
VisionIssuesFor(screenshot, model, reply) ==
    IF ~reply.exists THEN <<>>
    ELSE IF reply.kind = "badimage" THEN <<>>
    ELSE IF ~model THEN <<PlaceholderIssue(screenshot.device)>>
    ELSE CASE reply.kind = "raise"   -> <<>>
           [] reply.kind = "badjson" -> <<FallbackIssue(screenshot.device)>>
           [] reply.kind = "notlist" -> <<>>
           [] reply.kind = "list"    ->
                FindingsLoop(reply.findings, screenshot.device, 1)

RECURSIVE VisionLoop_stops_at_failure(_, _, _, _)
\* Variant of the screenshot loop that ends at the first screenshot whose
\* model call raises.
VisionLoop_stops_at_failure(screenshots, model, replies, i) ==
    IF i > Len(screenshots) THEN <<>>
    ELSE IF replies[screenshots[i].device].kind = "raise" THEN <<>>
    ELSE VisionIssuesFor(screenshots[i], model, replies[screenshots[i].device])
         \o VisionLoop_stops_at_failure(screenshots, model, replies, i + 1)

RECURSIVE VisionLoop(_, _, _, _)
\* for screenshot in screenshots: try ... except Exception: continue
VisionLoop(screenshots, model, replies, i) ==
    IF i > Len(screenshots) THEN <<>>
    ELSE VisionIssuesFor(screenshots[i], model, replies[screenshots[i].device])
         \o VisionLoop(screenshots, model, replies, i + 1)

\* Variant of VisionAnalysisTool.run that reports a placeholder issue when it
\* is given no screenshot.
VisionAnalysisTool_placeholder_on_empty(screenshots, model, replies) ==
    IF Len(screenshots) = 0
    THEN <<PlaceholderIssue("all")>>
    ELSE VisionLoop(screenshots, model, replies, 1)

\* model is whether VisionAnalysisTool.__init__ could build the Gemini model;
\* replies maps a device name to the environment's reply for its screenshot.
VisionAnalysisTool_run(screenshots, model, replies) ==
    VisionLoop(screenshots, model, replies, 1)

\* ResponsiveTestingAgent.analyze_with_vision
analyze_with_vision(screenshots, model, replies) ==
    VisionAnalysisTool_run(screenshots, model, replies)

-----------------------------------------------------------------------------
(* responsive_agent.py: SuggestionGeneratorTool, ReportGeneratorTool *)

UpperLetters == "ABCDEFGHIJKLMNOPQRSTUVWXYZÃ"
LowerLetters == "abcdefghijklmnopqrstuvwxyzã"

\* Each capital letter with its small letter
UpperToLower ==
    [c \in {SubSeq(UpperLetters, k, k) : k \in 1..Len(UpperLetters)} |->
        LET k == CHOOSE k \in 1..Len(UpperLetters) : SubSeq(UpperLetters, k, k) = c
        IN  SubSeq(LowerLetters, k, k)]

\* str.lower() on one character (of the accented capitals the titles hold
\* only the one of "BOTÃO")
LowerChar(c) == IF c \in DOMAIN UpperToLower THEN UpperToLower[c] ELSE c

RECURSIVE LowerFrom(_, _)
\* the characters of s from the i-th on, each in lower case
LowerFrom(s, i) ==
    IF i > Len(s) THEN ""
    ELSE LowerChar(SubSeq(s, i, i)) \o LowerFrom(s, i + 1)

\* str.lower()
Lower(s) == LowerFrom(s, 1)

\* Variant of the if/elif chain that tests the width keywords before the
\* text/font keywords.
TemplateFor_width_first(title) ==
    LET t == Lower(title) IN
    IF Contains(t, "viewport") THEN [template |-> "viewport", category |-> "html"]
    ELSE IF Contains(t, "media query")
         THEN [template |-> "media_query", category |-> "css"]
    ELSE IF Contains(t, "largura") \/ Contains(t, "width")
         THEN [template |-> "width", category |-> "css"]
    ELSE IF Contains(t, "texto") \/ Contains(t, "font")
         THEN [template |-> "font", category |-> "css"]
    ELSE IF Contains(t, "touch") \/ Contains(t, "botão")
         THEN [template |-> "touch", category |-> "css"]
    ELSE IF Contains(t, "imagem") \/ Contains(t, "image")
         THEN [template |-> "image", category |-> "css"]
    ELSE IF Contains(t, "scroll") \/ Contains(t, "rolagem")
         THEN [template |-> "scroll", category |-> "css"]
    ELSE [template |-> "generic", category |-> "css"]

\* The if/elif chain of lines 432-563 on the lower-cased title t: the template
\* and its category.  The template name stands for its code_example, before,
\* after and documentation.
TemplateOfLower(t) ==
    IF Contains(t, "viewport") THEN [template |-> "viewport", category |-> "html"]
    ELSE IF Contains(t, "media query")
         THEN [template |-> "media_query", category |-> "css"]
    ELSE IF Contains(t, "texto") \/ Contains(t, "font")
         THEN [template |-> "font", category |-> "css"]
    ELSE IF Contains(t, "largura") \/ Contains(t, "width")
         THEN [template |-> "width", category |-> "css"]
    ELSE IF Contains(t, "touch") \/ Contains(t, "botão")
         THEN [template |-> "touch", category |-> "css"]
    ELSE IF Contains(t, "imagem") \/ Contains(t, "image")
         THEN [template |-> "image", category |-> "css"]
    ELSE IF Contains(t, "scroll") \/ Contains(t, "rolagem")
         THEN [template |-> "scroll", category |-> "css"]
    ELSE [template |-> "generic", category |-> "css"]

\* title = issue.get("title", "").lower() (line 432), evaluated once, then
\* the chain.
TemplateFor(title) ==
    CHOOSE chosen \in {TemplateOfLower(t) : t \in {Lower(title)}} : TRUE

\* lines 565-572
PriorityFor(severity) ==
    IF severity <= 2 THEN "high"
    ELSE IF severity <= 4 THEN "medium"
    ELSE "low"

\* Variant of lines 565-584 that keeps the priority the template branch
\* assigned: "high" in every keyword branch, the initial "medium" otherwise.
RecommendationDict_template_priority(issue) ==
    LET chosen == TemplateFor(issue.title) IN
    [category |-> chosen.category,
     title    |-> "Correção: " \o issue.title,
     template |-> chosen.template,
     priority |-> IF chosen.template = "generic" THEN "medium" ELSE "high"]

\* lines 574-584
RecommendationDict(issue) ==
    LET chosen == TemplateFor(issue.title) IN
    [category |-> chosen.category,
     title    |-> "Correção: " \o issue.title,
     template |-> chosen.template,
     priority |-> PriorityFor(issue.severity)]

\* The statements of the per-issue try that raise: issue.get on a value that
\* is no dict, .lower() on a title that is no str (line 432), severity <= 2
\* on a severity that is no number (line 567).
SuggestionRaises(issue) ==
    \/ issue.py # "dict"
    \/ "title" \in issue.odd
    \/ "severity" \in issue.odd

RECURSIVE SuggestLoop_stops_at_failure(_, _)
\* Variant of the issue loop that ends at the first issue whose processing
\* raises.
SuggestLoop_stops_at_failure(issues, k) ==
    IF k > Len(issues) THEN <<>>
    ELSE IF SuggestionRaises(issues[k]) THEN <<>>
    ELSE <<RecommendationDict(issues[k])>>
         \o SuggestLoop_stops_at_failure(issues, k + 1)

RECURSIVE SuggestLoop(_, _)
\* for issue in issues: try ... recommendations.append(...) except: continue
SuggestLoop(issues, k) ==
    IF k > Len(issues) THEN <<>>
    ELSE (IF SuggestionRaises(issues[k])
          THEN <<>>
          ELSE <<RecommendationDict(issues[k])>>)
         \o SuggestLoop(issues, k + 1)

SuggestionGeneratorTool_run(issues) == SuggestLoop(issues, 1)

\* ResponsiveTestingAgent.generate_suggestions
generate_suggestions(issues) == SuggestionGeneratorTool_run(issues)

\* len([i for i in issues if i.get("type") == t])
CountType(issues, t) ==
    Cardinality({k \in 1..Len(issues) : issues[k].type = t})

\* ReportGeneratorTool.run: the summary is the template of lines 622-632
\* filled with the url and the four counts; write_ok is whether the report
\* file could be written.  On failure the handler returns {"error": ...}.
ReportGeneratorTool_run(url, issues, write_ok) ==
    IF write_ok
    THEN [has_summary |-> TRUE,
          summary |-> <<url, Len(issues), CountType(issues, "critical"),
                        CountType(issues, "warning"), CountType(issues, "info")>>]
    ELSE [has_summary |-> FALSE, summary |-> <<>>]

\* ResponsiveTestingAgent.create_report
create_report(url, issues, write_ok) == ReportGeneratorTool_run(url, issues, write_ok)

-----------------------------------------------------------------------------
(* main.py: calculate_scores, and ResponsiveTestingAgent.calculate_scores *)

ZeroScores == [mobile |-> 0, tablet |-> 0, desktop |-> 0, overall |-> 0]

\* len([i for i in issues if i.device == d and i.type == "critical"])
CriticalOn(issues, d) ==
    Cardinality({k \in 1..Len(issues) :
                    issues[k].device = d /\ issues[k].type = "critical"})

\* Variant of the scoring arithmetic without max(0, ...) on the device scores.
ScoreFormula_unclamped(issues) ==
    LET score_deduction == CountType(issues, "critical") * 15
                           + CountType(issues, "warning") * 8
                           + CountType(issues, "info") * 3
        overall_score == Max(0, 100 - score_deduction)
    IN  [mobile  |-> overall_score - CriticalOn(issues, "mobile") * 10,
         tablet  |-> overall_score - CriticalOn(issues, "tablet") * 10,
         desktop |-> overall_score - CriticalOn(issues, "desktop") * 10,
         overall |-> overall_score]

\* The try body, which is the same arithmetic in both functions
\* (main.py:255-276, responsive_agent.py:1010-1031).
ScoreFormula(issues) ==
    LET score_deduction == CountType(issues, "critical") * 15
                           + CountType(issues, "warning") * 8
                           + CountType(issues, "info") * 3
        overall_score == Max(0, 100 - score_deduction)
    IN  [mobile  |-> Max(0, overall_score - CriticalOn(issues, "mobile") * 10),
         tablet  |-> Max(0, overall_score - CriticalOn(issues, "tablet") * 10),
         desktop |-> Max(0, overall_score - CriticalOn(issues, "desktop") * 10),
         overall |-> overall_score]

\* main.py calculate_scores reads i.type and i.device as attributes: a dict has
\* neither, the AttributeError is caught and the all-zero dict is returned.
calculate_scores(issues) ==
    IF \E k \in 1..Len(issues) : issues[k].py = "dict"
    THEN ZeroScores
    ELSE ScoreFormula(issues)

\* ResponsiveTestingAgent.calculate_scores reads i.get("type"): an Issue model
\* object has no get, the AttributeError is caught likewise.
agent_calculate_scores(issues) ==
    IF \E k \in 1..Len(issues) : issues[k].py # "dict"
    THEN ZeroScores
    ELSE ScoreFormula(issues)

-----------------------------------------------------------------------------
(* database.py: DatabaseManager.save_analysis; main.py: save_analysis_to_db *)

\* commit_ok is whether the session's query and commit succeed; when they do
\* not, the handler rolls back and returns False.  A new row takes the column
\* defaults progress=0 and message NULL; error is the parameter's default None.
save_analysis(table, analysis_id, url, status, screenshots, issues, recommendations, score, summary, commit_ok) ==
    IF ~commit_ok THEN table
    ELSE IF analysis_id \in DOMAIN table
    THEN [table EXCEPT ![analysis_id] =
            [@ EXCEPT !.status = status, !.url = url,
                      !.screenshots = screenshots, !.issues = issues,
                      !.recommendations = recommendations, !.score = score,
                      !.summary = summary, !.error = None]]
    ELSE [i \in DOMAIN table \cup {analysis_id} |->
            IF i = analysis_id
            THEN [url |-> url, status |-> status, progress |-> 0,
                  message |-> None, screenshots |-> screenshots,
                  issues |-> issues, recommendations |-> recommendations,
                  score |-> score, summary |-> summary, error |-> None]
            ELSE table[i]]

\* save_analysis_to_db passes the status record's fields and ignores the
\* returned bool; its handler absorbs every Exception.
save_analysis_to_db(table, analysis_id, status, commit_ok) ==
    save_analysis(table, analysis_id, status.url, status.status,
                  status.screenshots, status.issues, status.recommendations,
                  status.score, status.summary, commit_ok)

-----------------------------------------------------------------------------
(* main.py: the status record and its updates *)

\* start_analysis, lines 93-100; the other fields take the defaults of
\* models.AnalysisStatus.
InitialStatus(analysis_id, url) ==
    [id |-> analysis_id, url |-> url, status |-> "pending", progress |-> 0,
     message |-> "Iniciando análise...", screenshots |-> <<>>, issues |-> <<>>,
     recommendations |-> <<>>, score |-> ZeroScores, summary |-> <<>>,
     error |-> None]

\* Variant of lines 192-194 that leaves the status at pending.
DispatchedStatus_keeps_pending(st) ==
    [st EXCEPT !.progress = 10, !.message = "Capturando screenshots..."]

\* lines 192-194
DispatchedStatus(st) ==
    [st EXCEPT !.status = "analyzing", !.progress = 10,
               !.message = "Capturando screenshots..."]

\* lines 200-201
CapturedStatus(st) ==
    [st EXCEPT !.progress = 25, !.message = "Analisando layout..."]

\* lines 203-205
CaptureFailedStatus(st, e) ==
    [st EXCEPT !.message = "Falha ao capturar screenshots: " \o ExcText(e),
               !.progress = 20]

\* lines 209-210
LayoutDoneStatus(st) ==
    [st EXCEPT !.progress = 50, !.message = "Analisando visual..."]

\* lines 214-215
VisionDoneStatus(st) ==
    [st EXCEPT !.progress = 75, !.message = "Gerando recomendações..."]

\* Variant of lines 228-235 that does not set progress to 100.
CompletedStatus_keeps_progress(st, screenshots, all_issues, recommendations, scores, report_data) ==
    [st EXCEPT !.status = "completed",
               !.message = "Análise concluída",
               !.screenshots = screenshots, !.issues = all_issues,
               !.recommendations = recommendations, !.score = scores,
               !.summary = IF report_data.has_summary
                           THEN report_data.summary ELSE <<>>]

\* Variant of lines 228-235 that sets the status, the progress and the message
\* and attaches no result.
CompletedStatus_without_results(st, screenshots, all_issues, recommendations, scores, report_data) ==
    [st EXCEPT !.status = "completed", !.progress = 100,
               !.message = "Análise concluída"]

\* lines 228-235; report_data.get("summary", "")
CompletedStatus(st, screenshots, all_issues, recommendations, scores, report_data) ==
    [st EXCEPT !.status = "completed", !.progress = 100,
               !.message = "Análise concluída",
               !.screenshots = screenshots, !.issues = all_issues,
               !.recommendations = recommendations, !.score = scores,
               !.summary = IF report_data.has_summary
                           THEN report_data.summary ELSE <<>>]

\* Variant of lines 247-249 that resets the progress.
ErrorStatus_resets_progress(st, e) ==
    [st EXCEPT !.status = "error", !.progress = 0,
               !.message = "Erro na análise: " \o ExcText(e),
               !.error = ExcText(e)]

\* Variant of lines 247-249 that records str(e) without the type name.
ErrorStatus_message_only(st, e) ==
    [st EXCEPT !.status = "error",
               !.message = "Erro na análise: " \o e.msg,
               !.error = e.msg]

\* lines 247-249
ErrorStatus(st, e) ==
    [st EXCEPT !.status = "error",
               !.message = "Erro na análise: " \o ExcText(e),
               !.error = ExcText(e)]

-----------------------------------------------------------------------------
(* Inputs of the job pipeline *)

\* Sets of devices whose capture raises inside the per-device try.
DeviceFailures == {{}, DeviceNames}

Sheet(href, reachable, media) ==
    [href |-> href, reachable |-> reachable, media |-> media]

\* A page none of whose checks raises.
Page(fetch_ok, viewport, sheets, fixed, small) ==
    [fetch_ok |-> fetch_ok, viewport |-> viewport, sheets |-> sheets,
     fixed |-> fixed, small |-> small, throws |-> 0]

\* Pages behind the submitted URL: one that cannot be fetched, one with no
\* viewport tag, stylesheet or inline style, one with a viewport tag and a
\* stylesheet holding a media query.
Pages ==
    { Page(FALSE, FALSE, <<>>, 0, 0),
      Page(TRUE, FALSE, <<>>, 0, 0),
      Page(TRUE, TRUE, <<Sheet("absolute", TRUE, TRUE)>>, 0, 0) }

Finding(type, severity, title) ==
    [dict |-> TRUE, keys |-> {"type", "severity", "title"}, odd |-> {},
     type |-> type, severity |-> severity, title |-> title]

Reply(exists, kind, findings) ==
    [exists |-> exists, kind |-> kind, findings |-> findings]

\* What the vision environment answers, per device: a model call that raises,
\* a missing file, a reply that is no JSON, a JSON list with one finding.
ReplyMaps ==
    { [d \in DeviceNames |->
         CASE d = "mobile"  -> Reply(TRUE, "raise", <<>>)
           [] d = "tablet"  -> Reply(FALSE, "list", <<>>)
           [] d = "desktop" -> Reply(TRUE, "badjson", <<>>)
           [] d = "4k"      -> Reply(TRUE, "list",
                                     <<Finding("critical", 1, "Horizontal scroll")>>)] }

-----------------------------------------------------------------------------
(* main.py: start_analysis and process_analysis *)

\* The locals of process_analysis; capture is a history field: how the call
\* of line 199 ended ("returned" or "raised", "none" before it) and whether the
\* browser could be launched.
NoLocals ==
    [screenshots |-> <<>>, layout_issues |-> <<>>, visual_issues |-> <<>>,
     recommendations |-> <<>>, capture |-> "none", launch_ok |-> TRUE]

NoException == [type |-> None, msg |-> None]

JobInit ==
    /\ active_analyses = <<>>
    /\ analyses = <<>>
    /\ pc = [j \in JobIds |-> "none"]
    /\ locals = [j \in JobIds |-> NoLocals]
    /\ save_calls = [j \in JobIds |-> 0]
    /\ raised = [j \in JobIds |-> NoException]

\* POST /api/analyze: a fresh uuid4, the initial record stored under it, the
\* background task queued.
start_analysis(j) ==
    /\ pc[j] = "none"
    /\ j \notin DOMAIN active_analyses
    /\ \E url \in Urls :
         active_analyses' =
            [i \in DOMAIN active_analyses \cup {j} |->
                IF i = j THEN InitialStatus(j, url) ELSE active_analyses[i]]
    /\ pc' = [pc EXCEPT ![j] = "queued"]
    /\ UNCHANGED <<analyses, locals, save_calls, raised>>

\* Variant of lines 192-194 that updates every record of the table.
Dispatch_every_record(j) ==
    /\ pc[j] = "queued"
    /\ active_analyses' = [i \in DOMAIN active_analyses |->
                              DispatchedStatus(active_analyses[i])]
    /\ pc' = [pc EXCEPT ![j] = "capture"]
    /\ UNCHANGED <<analyses, locals, save_calls, raised>>

\* process_analysis up to the first await (lines 189-199)
Dispatch(j) ==
    /\ pc[j] = "queued"
    /\ active_analyses' = [active_analyses EXCEPT ![j] = DispatchedStatus(@)]
    /\ pc' = [pc EXCEPT ![j] = "capture"]
    /\ UNCHANGED <<analyses, locals, save_calls, raised>>

\* Step 1, lines 197-205: the inner try around agent.capture_screenshots
Capture(j) ==
    /\ pc[j] = "capture"
    /\ \E launch_ok \in BOOLEAN, failing \in DeviceFailures, e \in Exceptions :
         LET r == capture_screenshots(j, launch_ok, failing) IN
         IF r.raises
         THEN /\ active_analyses' =
                    [active_analyses EXCEPT ![j] = CaptureFailedStatus(@, e)]
              /\ locals' = [locals EXCEPT ![j].screenshots = <<>>,
                                          ![j].capture = "raised",
                                          ![j].launch_ok = launch_ok]
         ELSE /\ active_analyses' =
                    [active_analyses EXCEPT ![j] = CapturedStatus(@)]
              /\ locals' = [locals EXCEPT ![j].screenshots = r.value,
                                          ![j].capture = "returned",
                                          ![j].launch_ok = launch_ok]
    /\ pc' = [pc EXCEPT ![j] = "layout"]
    /\ UNCHANGED <<analyses, save_calls, raised>>

\* Step 2, lines 208-210, when page is what is behind the url
LayoutOf(j, page) ==
    /\ pc[j] = "layout"
    /\ locals' = [locals EXCEPT ![j].layout_issues = analyze_layout(page)]
    /\ active_analyses' = [active_analyses EXCEPT ![j] = LayoutDoneStatus(@)]
    /\ pc' = [pc EXCEPT ![j] = "vision"]
    /\ UNCHANGED <<analyses, save_calls, raised>>

\* Step 2, lines 208-210
Layout(j) == \E page \in Pages : LayoutOf(j, page)

\* Step 3, lines 213-215
Vision(j) ==
    /\ pc[j] = "vision"
    /\ \E model \in BOOLEAN, replies \in ReplyMaps :
         locals' = [locals EXCEPT ![j].visual_issues =
                        analyze_with_vision(locals[j].screenshots, model, replies)]
    /\ active_analyses' = [active_analyses EXCEPT ![j] = VisionDoneStatus(@)]
    /\ pc' = [pc EXCEPT ![j] = "suggest"]
    /\ UNCHANGED <<analyses, save_calls, raised>>

\* line 218
AllIssues(l) == l.layout_issues \o l.visual_issues

\* Step 4, first await, lines 218-219
Suggest(j) ==
    /\ pc[j] = "suggest"
    /\ \E all_issues \in {AllIssues(locals[j])} :
         locals' = [locals EXCEPT ![j].recommendations =
                       generate_suggestions(all_issues)]
    /\ pc' = [pc EXCEPT ![j] = "report"]
    /\ UNCHANGED <<active_analyses, analyses, save_calls, raised>>

\* Step 4, second await, to the final status, lines 220-235
Report(j) ==
    /\ pc[j] = "report"
    /\ \E write_ok \in BOOLEAN :
         LET all_issues == AllIssues(locals[j])
             report_data == create_report(active_analyses[j].url, all_issues, write_ok)
             scores == calculate_scores(all_issues)
         IN  active_analyses' =
                [active_analyses EXCEPT ![j] =
                    CompletedStatus(@, locals[j].screenshots, all_issues,
                                    locals[j].recommendations, scores, report_data)]
    /\ pc' = [pc EXCEPT ![j] = "save"]
    /\ UNCHANGED <<analyses, locals, save_calls, raised>>

\* lines 238-240: save_analysis_to_db, then the function returns
Save(j) ==
    /\ pc[j] = "save"
    /\ \E commit_ok \in BOOLEAN :
         analyses' = save_analysis_to_db(analyses, j, active_analyses[j], commit_ok)
    /\ save_calls' = [save_calls EXCEPT ![j] = @ + 1]
    /\ locals' = [locals EXCEPT ![j] = NoLocals]
    /\ pc' = [pc EXCEPT ![j] = "done"]
    /\ UNCHANGED <<active_analyses, raised>>

\* The awaits of the outer try whose exception reaches line 242.  The one of
\* Step 1 is inside the inner try, and save_analysis_to_db absorbs its own.
RaisingSteps == {"layout", "vision", "suggest", "report"}

\* Variant of the handler that also persists the failed job's record.
Raise_and_save(j) ==
    /\ pc[j] \in RaisingSteps
    /\ \E e \in Exceptions :
         /\ active_analyses' = [active_analyses EXCEPT ![j] = ErrorStatus(@, e)]
         /\ raised' = [raised EXCEPT ![j] = e]
         /\ analyses' = save_analysis_to_db(analyses, j,
                                            ErrorStatus(active_analyses[j], e), TRUE)
    /\ save_calls' = [save_calls EXCEPT ![j] = @ + 1]
    /\ locals' = [locals EXCEPT ![j] = NoLocals]
    /\ pc' = [pc EXCEPT ![j] = "failed"]

\* Variant of the handler that returns without touching the record.
Raise_leaves_status(j) ==
    /\ pc[j] \in RaisingSteps
    /\ \E e \in Exceptions : raised' = [raised EXCEPT ![j] = e]
    /\ locals' = [locals EXCEPT ![j] = NoLocals]
    /\ pc' = [pc EXCEPT ![j] = "failed"]
    /\ UNCHANGED <<active_analyses, analyses, save_calls>>

\* lines 242-249: an exception escapes an agent call; the handler records it
\* and the function returns.
Raise(j) ==
    /\ pc[j] \in RaisingSteps
    /\ \E e \in Exceptions :
         /\ active_analyses' = [active_analyses EXCEPT ![j] = ErrorStatus(@, e)]
         /\ raised' = [raised EXCEPT ![j] = e]
    /\ locals' = [locals EXCEPT ![j] = NoLocals]
    /\ pc' = [pc EXCEPT ![j] = "failed"]
    /\ UNCHANGED <<analyses, save_calls>>

NotScored == [main_done |-> FALSE, main |-> ZeroScores,
              agent_done |-> FALSE, agent |-> ZeroScores]

\* created_at: now is the clock reading of the latest datetime.now() or
\* datetime.utcnow() call, status[analysis_id] the created_at given to the
\* status record at main.py:97, row[analysis_id] the column default taken
\* when the row is inserted (database.py:36).  The job pipeline never reads
\* them; only the history handler's specification tracks them.
NoTimes == [now |-> 0, status |-> <<>>, row |-> <<>>]

\* No call in progress.
NoCall == [op |-> "none", arg |-> <<>>]
NoResult == [done |-> FALSE, value |-> <<>>]

Idle ==
    /\ call = NoCall
    /\ result = NoResult

Init ==
    /\ JobInit
    /\ issues_in = <<>>
    /\ scores_out = NotScored
    /\ screenshots_table = {}
    /\ created_at = NoTimes
    /\ Idle

Next ==
    \E j \in JobIds :
        \/ start_analysis(j) /\ UNCHANGED <<scoreVars, screenshots_table, created_at, callVars>>
        \/ Dispatch(j) /\ UNCHANGED <<scoreVars, screenshots_table, created_at, callVars>>
        \/ Capture(j) /\ UNCHANGED <<scoreVars, screenshots_table, created_at, callVars>>
        \/ Layout(j) /\ UNCHANGED <<scoreVars, screenshots_table, created_at, callVars>>
        \/ Vision(j) /\ UNCHANGED <<scoreVars, screenshots_table, created_at, callVars>>
        \/ Suggest(j) /\ UNCHANGED <<scoreVars, screenshots_table, created_at, callVars>>
        \/ Report(j) /\ UNCHANGED <<scoreVars, screenshots_table, created_at, callVars>>
        \/ Save(j) /\ UNCHANGED <<scoreVars, screenshots_table, created_at, callVars>>
        \/ Raise(j) /\ UNCHANGED <<scoreVars, screenshots_table, created_at, callVars>>

Spec == Init /\ [][Next]_vars

-----------------------------------------------------------------------------
(* The scoring functions on their own *)

\* Issues given to the scoring functions: every type, critical ones on each
\* scored device and on an unscored one, a non-critical one on a scored device.
ScoreIssues ==
    { <<"critical", "mobile">>, <<"critical", "tablet">>, <<"critical", "desktop">>,
      <<"critical", "4k">>, <<"warning", "mobile">>, <<"info", "all">> }

\* The Python type of the list's elements: the dicts the tools build, or
\* models.Issue objects, which the annotation of main.py:251 names.
PyTypes == {"dict", "Issue"}

IssueValue(py, t) ==
    [py |-> py, type |-> t[1], severity |-> 3, title |-> "t", device |-> t[2],
     odd |-> {}]

ScoreInit ==
    /\ JobInit
    /\ issues_in = <<>>
    /\ scores_out = NotScored
    /\ screenshots_table = {}
    /\ created_at = NoTimes
    /\ Idle

\* The caller builds the list: one more issue of the list's element type.
ScoreAppend ==
    /\ scores_out = NotScored
    /\ Len(issues_in) < MaxIssues
    /\ \E py \in PyTypes, t \in ScoreIssues :
         /\ (IF Len(issues_in) = 0 THEN TRUE ELSE issues_in[1].py = py)
         /\ issues_in' = Append(issues_in, IssueValue(py, t))
    /\ UNCHANGED <<scores_out, jobVars, screenshots_table, created_at, callVars>>

\* scores = calculate_scores(issues)            (main.py)
ScoreMain ==
    /\ ~scores_out.main_done
    /\ scores_out' = [scores_out EXCEPT !.main_done = TRUE,
                                        !.main = calculate_scores(issues_in)]
    /\ UNCHANGED <<issues_in, jobVars, screenshots_table, created_at, callVars>>

\* scores = self.calculate_scores(issues)       (ResponsiveTestingAgent)
ScoreAgent ==
    /\ ~scores_out.agent_done
    /\ scores_out' = [scores_out EXCEPT !.agent_done = TRUE,
                                        !.agent = agent_calculate_scores(issues_in)]
    /\ UNCHANGED <<issues_in, jobVars, screenshots_table, created_at, callVars>>

ScoreNext == ScoreAppend \/ ScoreMain \/ ScoreAgent

SpecScore == ScoreInit /\ [][ScoreNext]_vars

-----------------------------------------------------------------------------
(* Properties of the job state machine *)

Submitted == DOMAIN active_analyses

Terminal(status) == status \in {"completed", "error"}

StagePcs == {"capture", "layout", "vision", "suggest", "report"}

StatusMoves ==
    { <<"pending", "analyzing">>, <<"analyzing", "completed">>,
      <<"analyzing", "error">> }

\* C1: a job enters the table with status pending and progress 0; its status
\* only moves pending -> analyzing -> completed or pending -> analyzing ->
\* error; the first step of process_analysis makes it analyzing; once it is
\* completed or error the status never changes and the task is past its stages.
C1_StatusMachine ==
    [][\A j \in JobIds :
        /\ (j \notin Submitted /\ j \in Submitted')
              => /\ active_analyses'[j].status = "pending"
                 /\ active_analyses'[j].progress = 0
        /\ j \in Submitted
              => /\ j \in Submitted'
                 /\ \/ active_analyses'[j].status = active_analyses[j].status
                    \/ <<active_analyses[j].status, active_analyses'[j].status>>
                          \in StatusMoves
                 /\ (pc[j] = "queued" /\ pc'[j] # "queued")
                       => active_analyses'[j].status = "analyzing"
                 /\ Terminal(active_analyses[j].status)
                       => /\ active_analyses'[j].status = active_analyses[j].status
                          /\ pc'[j] \notin StagePcs
                          /\ pc[j] \notin StagePcs
      ]_vars

\* One job has run to completed and another to error.
C1_Witness ==
    \E j \in Submitted, k \in Submitted :
        /\ active_analyses[j].status = "completed" /\ pc[j] = "done"
        /\ active_analyses[k].status = "error" /\ pc[k] = "failed"

\* C2: the progress of a job never decreases, along the capture-success, the
\* capture-failure and the error path; it is 100 when the job is completed and
\* below 100 when the job is in status error.
C2_ProgressMonotone ==
    [][\A j \in Submitted' :
        /\ j \in Submitted
              => active_analyses'[j].progress >= active_analyses[j].progress
        /\ active_analyses'[j].status = "completed"
              => active_analyses'[j].progress = 100
        /\ active_analyses'[j].status = "error"
              => active_analyses'[j].progress < 100
      ]_vars

\* One job failed after a capture failure (progress 20 kept), another completed
\* after a capture that returned.
C2_Witness ==
    \E j \in Submitted, k \in Submitted :
        /\ active_analyses[j].status = "error" /\ active_analyses[j].progress = 20
        /\ active_analyses[k].status = "completed" /\ pc[k] = "save"
        /\ locals[k].capture = "returned"

\* C3: in every state of the job table, progress is 100 exactly when the
\* status is completed.
C3_HundredIffCompleted ==
    \A j \in Submitted :
        (active_analyses[j].progress = 100) <=> (active_analyses[j].status = "completed")

\* A completed job at 100 beside a failed job below 100.
C3_Witness ==
    \E j \in Submitted, k \in Submitted :
        /\ active_analyses[j].status = "completed" /\ active_analyses[j].progress = 100
        /\ active_analyses[k].status = "error" /\ active_analyses[k].progress = 75

\* C4: when an exception reaches the handler of process_analysis the status is
\* error, message and error both hold the exception's type name and message,
\* and from then on nothing of the job changes: no later stage runs.
C4_ErrorRecorded ==
    [][\A j \in JobIds :
        raised'[j] # NoException
          => /\ active_analyses'[j].status = "error"
             /\ Contains(active_analyses'[j].message, raised'[j].type)
             /\ Contains(active_analyses'[j].message, raised'[j].msg)
             /\ Contains(active_analyses'[j].error, raised'[j].type)
             /\ Contains(active_analyses'[j].error, raised'[j].msg)
             /\ pc'[j] = "failed"
             /\ raised[j] # NoException
                  => /\ active_analyses'[j] = active_analyses[j]
                     /\ locals'[j] = locals[j]
                     /\ pc[j] = "failed"
      ]_vars

\* An exception escaped the vision stage of a job (progress 50 reached).
C4_Witness ==
    \E j \in Submitted :
        /\ raised[j] # NoException /\ pc[j] = "failed"
        /\ active_analyses[j].progress = 50

\* C5: a job in status error has had no save_analysis call and the analyses
\* table holds no row with its identifier.
C5_NoWriteOnError ==
    \A j \in Submitted :
        active_analyses[j].status = "error"
          => save_calls[j] = 0 /\ j \notin DOMAIN analyses

\* A job failed after its issues were computed, while another job's row is in
\* the table.
C5_Witness ==
    \E j \in Submitted, k \in Submitted :
        /\ active_analyses[j].status = "error" /\ active_analyses[j].progress = 75
        /\ k \in DOMAIN analyses

\* C6: for a job that reached completed, save_analysis is called exactly once,
\* after the results were attached to the in-memory record, and afterwards the
\* analyses table holds the job's row with the same status, screenshots,
\* issues, recommendations, score and summary.
C6_SavedOnCompletion ==
    \A j \in Submitted :
        /\ pc[j] = "save"
              => active_analyses[j].status = "completed" /\ save_calls[j] = 0
        /\ pc[j] = "done"
              => /\ save_calls[j] = 1
                 /\ j \in DOMAIN analyses
                 /\ analyses[j].status = active_analyses[j].status
                 /\ analyses[j].screenshots = active_analyses[j].screenshots
                 /\ analyses[j].issues = active_analyses[j].issues
                 /\ analyses[j].recommendations = active_analyses[j].recommendations
                 /\ analyses[j].score = active_analyses[j].score
                 /\ analyses[j].summary = active_analyses[j].summary

\* C7: the capture step never moves a job to error; with zero screenshots the
\* vision stage returns the empty list, and the job that completes has exactly
\* the heuristic stage's issues.
C7_CaptureFailureTolerated ==
    [][\A j \in Submitted :
        /\ (pc[j] = "capture" /\ pc'[j] # "capture")
              => pc'[j] = "layout" /\ active_analyses'[j].status = "analyzing"
        /\ (pc'[j] \in {"suggest", "report", "save"} /\ locals'[j].screenshots = <<>>)
              => locals'[j].visual_issues = <<>>
        /\ (pc'[j] = "save" /\ locals'[j].screenshots = <<>>)
              => /\ active_analyses'[j].status = "completed"
                 /\ active_analyses'[j].issues = locals'[j].layout_issues
      ]_vars

\* A job whose capture raised has completed with the two heuristic issues.
C7_Witness ==
    \E j \in Submitted :
        /\ pc[j] = "save" /\ locals[j].capture = "raised"
        /\ active_analyses[j].status = "completed"
        /\ active_analyses[j].issues = <<ViewportIssue, MediaQueryIssue>>

\* C8 as stated: when the browser cannot be launched, capture_screenshots
\* returns an empty list and no exception propagates out of the stage.
C8_Original ==
    \A j \in JobIds :
        (locals[j].capture # "none" /\ ~locals[j].launch_ok)
          => locals[j].capture = "returned" /\ locals[j].screenshots = <<>>

\* C8 as amended: when the browser cannot be launched the exception propagates
\* out of ScreenshotCaptureTool.run and capture_screenshots; process_analysis
\* catches it, continues with an empty screenshot list, progress 20 and the
\* message "Falha ao capturar screenshots: <type>: <message>".
C8_CaptureRaises ==
    \A j \in JobIds :
        /\ (locals[j].capture # "none" /\ ~locals[j].launch_ok)
              => locals[j].capture = "raised"
        /\ locals[j].capture = "raised"
              => /\ locals[j].screenshots = <<>>
                 /\ pc[j] = "layout"
                      => /\ active_analyses[j].status = "analyzing"
                         /\ active_analyses[j].progress = 20
                         /\ Contains(active_analyses[j].message,
                                     "Falha ao capturar screenshots: ")

\* The launch failed, the exception reached process_analysis, the job goes on.
C8_Witness ==
    \E j \in Submitted :
        /\ ~locals[j].launch_ok /\ locals[j].capture = "raised"
        /\ pc[j] = "vision" /\ active_analyses[j].progress = 50

\* C9: the score of a completed job is overall = max(0, 100 - 15c - 8w - 3i)
\* over its issue list and, per device, max(0, overall - 10 * critical issues
\* on that device); one critical and one warning give overall 77.
C9_ScoreOfCompleted ==
    \A j \in Submitted :
        active_analyses[j].status = "completed"
          => LET l == active_analyses[j].issues
                 n(t) == Cardinality({k \in 1..Len(l) : l[k].type = t})
                 crit(d) == Cardinality({k \in 1..Len(l) :
                                l[k].type = "critical" /\ l[k].device = d})
                 overall == Max(0, 100 - 15 * n("critical") - 8 * n("warning")
                                       - 3 * n("info"))
                 score == active_analyses[j].score
             IN  /\ score.overall = overall
                 /\ score.mobile = Max(0, overall - 10 * crit("mobile"))
                 /\ score.tablet = Max(0, overall - 10 * crit("tablet"))
                 /\ score.desktop = Max(0, overall - 10 * crit("desktop"))
                 /\ (Len(l) = 2 /\ n("critical") = 1 /\ n("warning") = 1)
                       => score.overall = 77

-----------------------------------------------------------------------------
(* Properties of the scoring functions *)

ScoredDevices == {"mobile", "tablet", "desktop"}

\* C10 as stated, for ResponsiveTestingAgent.calculate_scores on a list of
\* dicts: every device score is at most the overall score and lower than it by
\* exactly 10 times the number of critical issues on that device.
C10_Original ==
    (scores_out.agent_done /\ \A k \in 1..Len(issues_in) : issues_in[k].py = "dict")
      => \A d \in ScoredDevices :
            /\ scores_out.agent[d] <= scores_out.agent.overall
            /\ scores_out.agent[d] =
                  scores_out.agent.overall - 10 * CriticalOn(issues_in, d)

\* C10 as amended: for both scoring functions and every issue list, each
\* device score is at most the overall score and equals max(0, overall - 10 *
\* critical issues on that device): the difference is exactly 10 per critical
\* issue until the device score reaches 0.
C10_DeviceScores ==
    /\ scores_out.agent_done
          => \A d \in ScoredDevices :
                /\ scores_out.agent[d] <= scores_out.agent.overall
                /\ scores_out.agent[d] =
                      Max(0, scores_out.agent.overall - 10 * CriticalOn(issues_in, d))
    /\ scores_out.main_done
          => \A d \in ScoredDevices :
                /\ scores_out.main[d] <= scores_out.main.overall
                /\ scores_out.main[d] =
                      Max(0, scores_out.main.overall - 10 * CriticalOn(issues_in, d))

\* Five critical issues on mobile: overall 25, mobile clamped at 0, and a
\* tablet score 10 below overall in the same list's sibling case.
C10_Witness ==
    /\ scores_out.agent_done /\ scores_out.main_done
    /\ CriticalOn(issues_in, "mobile") = 5
    /\ scores_out.agent.overall = 25 /\ scores_out.agent.mobile = 0
    /\ scores_out.agent.tablet = 25

-----------------------------------------------------------------------------
(* The heuristic stage on its own *)

\* Most stylesheet links on a page, most elements matched by check 3 or 4
MaxSheets == 2
MaxElements == 1

\* A stylesheet with a media query behind each href form, one without a media
\* query, one that cannot be fetched.
SheetKinds ==
    { Sheet("absolute", TRUE, TRUE), Sheet("absolute", TRUE, FALSE),
      Sheet("absolute", FALSE, TRUE), Sheet("root-relative", TRUE, TRUE),
      Sheet("path-relative", TRUE, TRUE), Sheet("none", TRUE, TRUE) }

SheetLists == UNION {[1..n -> SheetKinds] : n \in 0..MaxSheets}

\* No check raises, or check 3 or check 4 does.
LayoutThrows == {0, 3, 4}

\* Check 3 can only raise on a page that has a fixed-width element.
LayoutPages ==
    { page \in { [Page(f, v, sh, fx, sm) EXCEPT !.throws = t] :
                    f \in BOOLEAN, v \in BOOLEAN, sh \in SheetLists,
                    fx \in 0..MaxElements, sm \in 0..MaxElements,
                    t \in LayoutThrows } :
        page.throws = 3 => page.fixed > 0 }

LayoutInit ==
    /\ JobInit
    /\ issues_in = <<>>
    /\ scores_out = NotScored
    /\ screenshots_table = {}
    /\ created_at = NoTimes
    /\ call \in {[op |-> "analyze_layout", arg |-> page] : page \in LayoutPages}
    /\ result = NoResult

\* layout_issues = await agent.analyze_layout(url, screenshots)
LayoutRun ==
    /\ call.op = "analyze_layout"
    /\ ~result.done
    /\ result' = [done |-> TRUE, value |-> analyze_layout(call.arg)]
    /\ UNCHANGED <<jobVars, scoreVars, screenshots_table, created_at, call>>

SpecLayout == LayoutInit /\ [][LayoutRun]_vars

LayoutReturned == call.op = "analyze_layout" /\ result.done

\* Some fetched stylesheet of the page contains '@media'.
MediaQueryFound(page) ==
    \E i \in 1..Len(page.sheets) :
        SheetFetched(page.sheets[i]) /\ page.sheets[i].media

ViewportCount(page) == IF page.viewport THEN 0 ELSE 1
MediaQueryCount(page) == IF MediaQueryFound(page) THEN 0 ELSE 1

\* C11: for a fetched page none of whose checks raises, the result of
\* LayoutAnalysisTool.run is the concatenation, in check order, of the four
\* checks' issues (viewport, media queries, fixed widths, small texts); a page
\* with no viewport tag, no stylesheet link and no inline style yields exactly
\* a critical severity-5 mobile issue followed by a warning severity-3 issue
\* with device all.
C11_Additive ==
    (LayoutReturned /\ call.arg.fetch_ok /\ call.arg.throws = 0) =>
        LET page == call.arg
            r == result.value
            nv == ViewportCount(page)
            nm == MediaQueryCount(page)
        IN  /\ Len(r) = nv + nm + page.fixed + page.small
            /\ \A k \in 1..Len(r) :
                 r[k].title =
                    (IF k <= nv THEN "Viewport Meta Tag Missing"
                     ELSE IF k <= nv + nm THEN "No Media Queries Found"
                     ELSE IF k <= nv + nm + page.fixed THEN "Fixed Width Elements"
                     ELSE "Texto Muito Pequeno")
            /\ (~page.viewport /\ Len(page.sheets) = 0
                    /\ page.fixed = 0 /\ page.small = 0)
                 => /\ Len(r) = 2
                    /\ r[1].type = "critical" /\ r[1].severity = 5
                    /\ r[1].device = "mobile"
                    /\ r[2].type = "warning" /\ r[2].severity = 3
                    /\ r[2].device = "all"

C11_Witness ==
    /\ LayoutReturned
    /\ call.arg.fetch_ok /\ call.arg.throws = 0
    /\ ~call.arg.viewport /\ Len(call.arg.sheets) = 0
    /\ call.arg.fixed = 0 /\ call.arg.small = 0
    /\ result.value = <<ViewportIssue, MediaQueryIssue>>

\* C12: when one of the checks of LayoutAnalysisTool.run raises on a fetched
\* page, the result is what the other checks contribute: the issues appended
\* by the earlier checks are returned and the later checks still run.
C12_CheckIsolation ==
    (LayoutReturned /\ call.arg.fetch_ok /\ call.arg.throws # 0) =>
        LET page == call.arg IN
        result.value =
            (IF page.viewport THEN <<>> ELSE <<ViewportIssue>>)
            \o (IF MediaQueryFound(page) THEN <<>> ELSE <<MediaQueryIssue>>)
            \o (IF page.throws = 3 THEN <<>> ELSE Repeat(FixedWidthIssue, page.fixed))
            \o (IF page.throws = 4 THEN <<>> ELSE Repeat(SmallTextIssue, page.small))

-----------------------------------------------------------------------------
(* The vision stage on its own *)

\* Most screenshots handed to the vision stage
MaxScreenshots == 2

\* An element of the model's list that is no JSON object
NonDict ==
    [dict |-> FALSE, keys |-> {}, odd |-> {},
     type |-> "warning", severity |-> 3, title |-> "Problema Visual"]

\* What can happen to one screenshot: its file is missing or cannot be
\* opened, the model call raises, the text is no JSON, the JSON is no list,
\* the list is empty, holds one finding, or a finding followed by a string.
VisionReplies ==
    { Reply(FALSE, "list", <<>>),
      Reply(TRUE, "badimage", <<>>),
      Reply(TRUE, "raise", <<>>),
      Reply(TRUE, "badjson", <<>>),
      Reply(TRUE, "notlist", <<>>),
      Reply(TRUE, "list", <<>>),
      Reply(TRUE, "list", <<Finding("critical", 1, "Horizontal scroll")>>),
      Reply(TRUE, "list", <<Finding("warning", 3, "Small buttons"), NonDict>>) }

\* The lists the capture stage can hand over, with a reply for each device
\* in them, and whether the Gemini model could be built.
VisionCalls ==
    UNION { { [screenshots |-> CaptureLoop(1, failing, 1), model |-> model,
               replies |-> replies] :
                 model \in BOOLEAN,
                 replies \in [DeviceNames \ failing -> VisionReplies] } :
            failing \in { f \in SUBSET DeviceNames :
                            Cardinality(DeviceNames \ f) <= MaxScreenshots } }

VisionInit ==
    /\ JobInit
    /\ issues_in = <<>>
    /\ scores_out = NotScored
    /\ screenshots_table = {}
    /\ created_at = NoTimes
    /\ call \in {[op |-> "analyze_with_vision", arg |-> c] : c \in VisionCalls}
    /\ result = NoResult

\* visual_issues = await agent.analyze_with_vision(screenshots)
VisionRun ==
    /\ call.op = "analyze_with_vision"
    /\ ~result.done
    /\ result' = [done |-> TRUE,
                  value |-> analyze_with_vision(call.arg.screenshots,
                                                call.arg.model, call.arg.replies)]
    /\ UNCHANGED <<jobVars, scoreVars, screenshots_table, created_at, call>>

SpecVision == VisionInit /\ [][VisionRun]_vars

VisionReturned == call.op = "analyze_with_vision" /\ result.done

\* The screenshots whose file exists and can be opened
Loaded(c) ==
    SelectSeq(c.screenshots,
              LAMBDA sh : /\ c.replies[sh.device].exists
                          /\ c.replies[sh.device].kind # "badimage")

IsPlaceholder(issue, device) ==
    /\ issue.type = "info"
    /\ issue.title = "Visão IA indisponível"
    /\ issue.device = device

\* C13, as stated: with no model configured the result holds exactly one
\* informational placeholder issue per screenshot passed in, tagged with that
\* screenshot's device.
C13_Original ==
    (VisionReturned /\ ~call.arg.model) =>
        /\ Len(result.value) = Len(call.arg.screenshots)
        /\ \A k \in 1..Len(result.value) :
             IsPlaceholder(result.value[k], call.arg.screenshots[k].device)

\* C13, amended: with no model configured the result holds exactly one
\* informational placeholder issue per screenshot whose file exists and can
\* be opened, in screenshot order and tagged with that screenshot's device; a
\* screenshot whose file is missing or unreadable is skipped.
C13_PlaceholderPerLoaded ==
    (VisionReturned /\ ~call.arg.model) =>
        /\ Len(result.value) = Len(Loaded(call.arg))
        /\ \A k \in 1..Len(result.value) :
             IsPlaceholder(result.value[k], Loaded(call.arg)[k].device)

C13_Witness ==
    /\ VisionReturned /\ ~call.arg.model
    /\ Len(call.arg.screenshots) = 2
    /\ ~call.arg.replies[call.arg.screenshots[1].device].exists
    /\ call.arg.replies[call.arg.screenshots[2].device].exists
    /\ call.arg.replies[call.arg.screenshots[2].device].kind = "raise"
    /\ Len(result.value) = 1
    /\ IsPlaceholder(result.value[1], call.arg.screenshots[2].device)

\* The model answered for the screenshot, but not with a list of objects.
UnexpectedStructure(reply) ==
    /\ reply.exists
    /\ \/ reply.kind \in {"badjson", "notlist"}
       \/ /\ reply.kind = "list"
          /\ \E i \in 1..Len(reply.findings) : ~reply.findings[i].dict

FallbacksFor(issues, device) ==
    { i \in 1..Len(issues) :
        /\ issues[i].device = device
        /\ issues[i].type = "info"
        /\ issues[i].title = "Análise Visual Completa" }

\* C14: whenever the model responds for a screenshot with something that is
\* not the expected structure (no JSON, or JSON that is no list of finding
\* objects), the result holds exactly one informational fallback issue for
\* that screenshot.
C14_FallbackOnBadStructure ==
    (VisionReturned /\ call.arg.model) =>
        \A k \in 1..Len(call.arg.screenshots) :
            LET device == call.arg.screenshots[k].device IN
            UnexpectedStructure(call.arg.replies[device])
                => Cardinality(FallbacksFor(result.value, device)) = 1

RECURSIVE AloneYields(_, _)
\* What the screenshots from the i-th on yield when each is given to the
\* stage on its own, concatenated in screenshot order.
AloneYields(c, i) ==
    IF i > Len(c.screenshots) THEN <<>>
    ELSE analyze_with_vision(<<c.screenshots[i]>>, c.model, c.replies)
         \o AloneYields(c, i + 1)

Failing(reply) ==
    \/ ~reply.exists
    \/ reply.kind \in {"badimage", "raise", "badjson", "notlist"}

\* C15: the result of the vision stage is, in screenshot order, what each
\* screenshot yields when processed alone, whatever happens to the others
\* (missing file, model call raising, bad response).
C15_ScreenshotIsolation ==
    VisionReturned => result.value = AloneYields(call.arg, 1)

C15_Witness ==
    /\ VisionReturned /\ call.arg.model
    /\ Len(call.arg.screenshots) = 2
    /\ call.arg.replies[call.arg.screenshots[1].device].kind = "raise"
    /\ call.arg.replies[call.arg.screenshots[1].device].exists
    /\ ~Failing(call.arg.replies[call.arg.screenshots[2].device])
    /\ Len(result.value) = 1
    /\ result.value[1].title = "Horizontal scroll"
    /\ result.value[1].device = call.arg.screenshots[2].device

-----------------------------------------------------------------------------
(* The suggestion stage on its own *)

\* Longest issue list given to the suggestion stage
MaxSuggestIssues == 2

\* Titles with the keywords of each branch, in other letter cases, with the
\* keywords of two branches, and with none.
SuggestTitles ==
    { "Viewport Meta Tag Missing", "Fixed width viewport",
      "Missing MEDIA QUERY", "No Media Queries Found",
      "Texto Muito Pequeno", "Font width mismatch",
      "Fixed Width Elements", "Largura fixa",
      "Touch image overlap", "BOTÃO pequeno",
      "Imagem cortada", "Rolagem de imagem",
      "Horizontal scroll", "Low contrast" }

SuggestSeverities == 1..5

\* Issues as the two analysis stages build them, and two findings of the
\* vision model whose title is null and whose severity is a string.
SuggestIssues ==
    { IssueDict("warning", severity, title, "mobile") :
        severity \in {2, 5}, title \in SuggestTitles }
    \cup { IssueDict("warning", severity, "Low contrast", "tablet") :
             severity \in SuggestSeverities }
    \cup { ViewportIssue,
           [IssueDict("warning", 3, "None", "mobile") EXCEPT !.odd = {"title"}],
           [IssueDict("warning", 3, "Horizontal scroll", "mobile")
               EXCEPT !.odd = {"severity"}] }

SuggestInit ==
    /\ JobInit
    /\ issues_in = <<>>
    /\ scores_out = NotScored
    /\ screenshots_table = {}
    /\ created_at = NoTimes
    /\ call = [op |-> "generate_suggestions", arg |-> <<>>]
    /\ result = NoResult

\* all_issues grows by one issue
SuggestAppend ==
    /\ call.op = "generate_suggestions"
    /\ ~result.done
    /\ Len(call.arg) < MaxSuggestIssues
    /\ \E issue \in SuggestIssues : call' = [call EXCEPT !.arg = Append(@, issue)]
    /\ UNCHANGED <<jobVars, scoreVars, screenshots_table, created_at, result>>

\* recommendations = await agent.generate_suggestions(all_issues)
SuggestRun ==
    /\ call.op = "generate_suggestions"
    /\ ~result.done
    /\ result' = [done |-> TRUE, value |-> generate_suggestions(call.arg)]
    /\ UNCHANGED <<jobVars, scoreVars, screenshots_table, created_at, call>>

SuggestNext == SuggestAppend \/ SuggestRun

SpecSuggest == SuggestInit /\ [][SuggestNext]_vars

SuggestReturned == call.op = "generate_suggestions" /\ result.done

\* The issues whose recommendation can be generated, in list order
Suggestible(issues) ==
    SelectSeq(issues, LAMBDA issue : /\ issue.py = "dict"
                                     /\ issue.odd \cap {"title", "severity"} = {})

\* C16, as stated: the suggestion stage returns exactly one recommendation
\* per issue, the k-th one generated from the k-th issue.
C16_Original ==
    SuggestReturned =>
        /\ Len(result.value) = Len(call.arg)
        /\ \A k \in 1..Len(result.value) :
             result.value[k].title = "Correção: " \o call.arg[k].title

\* C16, amended: the suggestion stage returns exactly one recommendation per
\* issue whose title is a string and whose severity is a number, in the order
\* of those issues; an issue whose processing raises is skipped.
C16_OnePerSuggestible ==
    SuggestReturned =>
        /\ Len(result.value) = Len(Suggestible(call.arg))
        /\ \A k \in 1..Len(result.value) :
             result.value[k].title = "Correção: " \o Suggestible(call.arg)[k].title

C16_Witness ==
    /\ SuggestReturned
    /\ Len(call.arg) = 2
    /\ call.arg[1].odd = {"title"}
    /\ call.arg[2].title = "Fixed Width Elements"
    /\ Len(result.value) = 1
    /\ result.value[1].title = "Correção: Fixed Width Elements"

\* The keyword groups in the order the chain tests them, with their template
KeywordGroups ==
    << [template |-> "viewport",    keywords |-> {"viewport"}],
       [template |-> "media_query", keywords |-> {"media query"}],
       [template |-> "font",        keywords |-> {"texto", "font"}],
       [template |-> "width",       keywords |-> {"largura", "width"}],
       [template |-> "touch",       keywords |-> {"touch", "botão"}],
       [template |-> "image",       keywords |-> {"imagem", "image"}],
       [template |-> "scroll",      keywords |-> {"scroll", "rolagem"}] >>

\* keyword occurs in title, letter case ignored
MatchesIgnoringCase(title, keyword) ==
    \E i \in 1..(Len(title) - Len(keyword) + 1) :
        \A n \in 1..Len(keyword) :
            LowerChar(SubSeq(title, i + n - 1, i + n - 1)) = SubSeq(keyword, n, n)

GroupMatches(title, g) ==
    \E keyword \in KeywordGroups[g].keywords : MatchesIgnoringCase(title, keyword)

FirstMatchTemplate(title) ==
    IF \E g \in 1..Len(KeywordGroups) : GroupMatches(title, g)
    THEN LET g == CHOOSE g \in 1..Len(KeywordGroups) :
                    /\ GroupMatches(title, g)
                    /\ \A h \in 1..(g - 1) : ~GroupMatches(title, h)
         IN  KeywordGroups[g].template
    ELSE "generic"

\* C17: every recommendation carries the template of the first keyword group,
\* in the order viewport, media query, text/font, width, touch/button, image,
\* scroll, one of whose keywords occurs in the issue title with letter case
\* ignored, and the generic template when no group matches.
C17_FirstMatchWins ==
    SuggestReturned =>
        \A k \in 1..Len(result.value) :
            result.value[k].template
                = FirstMatchTemplate(Suggestible(call.arg)[k].title)

C17_Witness ==
    /\ SuggestReturned
    /\ Len(call.arg) = 2
    /\ call.arg[1].title = "Font width mismatch"
    /\ call.arg[2].title = "Low contrast"
    /\ Len(result.value) = 2
    /\ result.value[1].template = "font"
    /\ result.value[2].template = "generic"

PriorityBand(severity) ==
    CASE severity \in {1, 2} -> "high"
      [] severity \in {3, 4} -> "medium"
      [] severity = 5        -> "low"

\* C18: the priority of every recommendation is fixed by the severity of its
\* issue alone: 1 or 2 gives high, 3 or 4 medium, 5 low, whatever template
\* was selected; the severity-5 issue 'Viewport Meta Tag Missing' gets
\* category html with priority low.
C18_PriorityFromSeverity ==
    SuggestReturned =>
        \A k \in 1..Len(result.value) :
            LET issue == Suggestible(call.arg)[k] IN
            /\ result.value[k].priority = PriorityBand(issue.severity)
            /\ issue = ViewportIssue
                 => /\ result.value[k].category = "html"
                    /\ result.value[k].priority = "low"

C18_Witness ==
    /\ SuggestReturned
    /\ Len(call.arg) = 2
    /\ call.arg[1] = ViewportIssue
    /\ call.arg[2].title = "Low contrast" /\ call.arg[2].severity = 5
    /\ result.value[1].category = "html" /\ result.value[1].priority = "low"
    /\ result.value[1].template = "viewport"
    /\ result.value[2].template = "generic" /\ result.value[2].priority = "low"

-----------------------------------------------------------------------------
(* main.py: the GET handlers, and a restart of the server process *)

\* models.py: IssueType and DeviceType
IssueTypes == {"critical", "warning", "info"}
DeviceTypes == {"mobile", "tablet", "desktop", "4k"}

\* Whether models.Issue accepts the stored dict: type and device are enums,
\* severity is an int in 1..5, title a str.
ValidIssue(issue) ==
    /\ issue.odd = {}
    /\ issue.type \in IssueTypes
    /\ issue.severity \in 1..5
    /\ issue.device \in DeviceTypes

\* AnalysisStatus.from_db_model: builds the API model from a row; pydantic
\* raises ValidationError when a stored issue is no valid models.Issue.  The
\* screenshots, recommendations and score the pipeline stores are valid.
from_db_model(analysis_id, row) ==
    IF \E k \in 1..Len(row.issues) : ~ValidIssue(row.issues[k])
    THEN [raises |-> TRUE, value |-> <<>>]
    ELSE [raises |-> FALSE,
          value |-> [id |-> analysis_id, url |-> row.url, status |-> row.status,
                     progress |-> row.progress,
                     message |-> IF row.message = None THEN "" ELSE row.message,
                     screenshots |-> row.screenshots, issues |-> row.issues,
                     recommendations |-> row.recommendations,
                     score |-> row.score, summary |-> row.summary,
                     error |-> row.error]]

\* DatabaseManager.get_analysis: the row, or None
get_analysis(table, analysis_id) ==
    IF analysis_id \in DOMAIN table
    THEN [found |-> TRUE, row |-> table[analysis_id]]
    ELSE [found |-> FALSE, row |-> <<>>]

\* GET /api/analysis/{analysis_id}: the HTTP status code and the body
get_analysis_status(active, table, analysis_id) ==
    IF analysis_id \in DOMAIN active
    THEN [code |-> 200, body |-> active[analysis_id]]
    ELSE LET analysis == get_analysis(table, analysis_id) IN
         IF ~analysis.found
         THEN [code |-> 404, body |-> "Análise não encontrada"]
         ELSE LET built == from_db_model(analysis_id, analysis.row) IN
              IF built.raises
              THEN [code |-> 500, body |-> "Erro ao obter análise"]
              ELSE [code |-> 200, body |-> built.value]

\* DatabaseManager.get_screenshots and the descriptors of lines 150-158
ScreenshotDescriptors(shots, analysis_id) ==
    { [id |-> row.id, device |-> row.device, resolution |-> row.resolution,
       url |-> row.filename, full_page_url |-> row.full_page_filename] :
        row \in {r \in shots : r.analysis_id = analysis_id} }

\* GET /api/screenshots/{analysis_id}: looks the job up in the analyses table
\* only, then lists the rows of the screenshots table.
get_screenshots(table, shots, analysis_id) ==
    IF ~get_analysis(table, analysis_id).found
    THEN [code |-> 404, body |-> {}]
    ELSE [code |-> 200, body |-> ScreenshotDescriptors(shots, analysis_id)]

\* Jobs submitted while the GET handlers are exercised
MaxHttpJobs == 1
HttpJobIds == {j \in JobIds : j <= MaxHttpJobs}

\* An identifier no POST /api/analyze returned
UnknownId == MaxJobs + 1

HttpIds == HttpJobIds \cup {UnknownId}

\* start_analysis or one step of process_analysis for job j
JobStep(j) ==
    \/ start_analysis(j)
    \/ Dispatch(j)
    \/ Capture(j)
    \/ Layout(j)
    \/ Vision(j)
    \/ Suggest(j)
    \/ Report(j)
    \/ Save(j)
    \/ Raise(j)

\* The server process is restarted (uvicorn runs with reload=True): the module
\* is loaded again, active_analyses is empty and the background tasks are
\* gone; the database file stays.
Restart ==
    /\ active_analyses # <<>>
    /\ active_analyses' = <<>>
    /\ pc' = [j \in JobIds |-> IF pc[j] = "none" THEN "none" ELSE "lost"]
    /\ locals' = [j \in JobIds |-> NoLocals]
    /\ UNCHANGED <<analyses, save_calls, raised>>

GetStatus(analysis_id) ==
    /\ call.op = "none"
    /\ call' = [op |-> "get_analysis_status", arg |-> analysis_id]
    /\ result' = [done |-> TRUE,
                  value |-> get_analysis_status(active_analyses, analyses,
                                                analysis_id)]
    /\ UNCHANGED <<jobVars, scoreVars, screenshots_table, created_at>>

GetScreenshots(analysis_id) ==
    /\ call.op = "none"
    /\ call' = [op |-> "get_screenshots", arg |-> analysis_id]
    /\ result' = [done |-> TRUE,
                  value |-> get_screenshots(analyses, screenshots_table,
                                            analysis_id)]
    /\ UNCHANGED <<jobVars, scoreVars, screenshots_table, created_at>>

\* The response is sent; the next request can be served.
Respond ==
    /\ call.op # "none"
    /\ call' = NoCall
    /\ result' = NoResult
    /\ UNCHANGED <<jobVars, scoreVars, screenshots_table, created_at>>

HttpNext ==
    \/ \E j \in HttpJobIds :
         JobStep(j) /\ UNCHANGED <<scoreVars, screenshots_table, created_at, callVars>>
    \/ Restart /\ UNCHANGED <<scoreVars, screenshots_table, created_at, callVars>>
    \/ \E analysis_id \in HttpIds : GetStatus(analysis_id)
    \/ \E analysis_id \in HttpIds : GetScreenshots(analysis_id)
    \/ Respond

SpecHttp == Init /\ [][HttpNext]_vars

\* The step in which a GET handler named op answers
Answers(op) == call.op = "none" /\ call'.op = op

\* C19: GET /api/analysis/{id} answers with the in-memory record when the
\* identifier is in active_analyses (as every identifier returned by POST
\* /api/analyze is while the process lives), otherwise with the record
\* rebuilt from the row of the analyses table, and with 404 only when the
\* identifier is in neither.
C19_StatusLookup ==
    [][Answers("get_analysis_status") =>
         LET analysis_id == call'.arg
             response == result'.value
         IN  IF analysis_id \in DOMAIN active_analyses
             THEN /\ response.code = 200
                  /\ response.body = active_analyses[analysis_id]
             ELSE IF analysis_id \in DOMAIN analyses
             THEN /\ response.code = 200
                  /\ response.body.id = analysis_id
                  /\ response.body.status = analyses[analysis_id].status
                  /\ response.body.issues = analyses[analysis_id].issues
             ELSE response.code = 404]_vars

\* The identifiers POST /api/analyze has returned
Known(analysis_id) == analysis_id \in JobIds /\ pc[analysis_id] # "none"

\* The screenshots captured for a job so far
CapturedFor(analysis_id) ==
    IF analysis_id \in DOMAIN analyses THEN analyses[analysis_id].screenshots
    ELSE IF analysis_id \in DOMAIN active_analyses
              /\ active_analyses[analysis_id].status = "completed"
         THEN active_analyses[analysis_id].screenshots
    ELSE locals[analysis_id].screenshots

\* C20: GET /api/screenshots/{id} answers 404 for an identifier no POST
\* returned, and for an identifier returned by POST /api/analyze it answers
\* with the list of the job's screenshot descriptors, one per screenshot
\* captured for the job.
C20_ScreenshotsOfKnownJob ==
    [][Answers("get_screenshots") =>
         LET analysis_id == call'.arg
             response == result'.value
         IN  IF Known(analysis_id)
             THEN /\ response.code = 200
                  /\ Cardinality(response.body) = Len(CapturedFor(analysis_id))
             ELSE response.code = 404]_vars

-----------------------------------------------------------------------------
(* main.py: GET /api/history; database.py: get_recent_analyses *)

\* Largest limit a history request carries
MaxLimit == 2
Limits == 1..MaxLimit

Min(a, b) == IF a <= b THEN a ELSE b

\* One more reading of the clock
Tick(times) == times.now + 1

\* status = AnalysisStatus(..., created_at=datetime.now(), ...)   main.py:97
StampStatus(times, analysis_id) ==
    [now |-> Tick(times),
     status |-> [i \in DOMAIN times.status \cup {analysis_id} |->
                    IF i = analysis_id THEN Tick(times) ELSE times.status[i]],
     row |-> times.row]

\* created_at = Column(DateTime, default=datetime.utcnow): save_analysis does
\* not pass created_at, so a new row takes the time of its insertion.
StampRow(times, analysis_id) ==
    [now |-> Tick(times),
     status |-> times.status,
     row |-> [i \in DOMAIN times.row \cup {analysis_id} |->
                 IF i = analysis_id THEN Tick(times) ELSE times.row[i]]]

RECURSIVE NewestFirst(_, _)
\* order_by(Analysis.created_at.desc())
NewestFirst(ids, row_times) ==
    IF ids = {} THEN <<>>
    ELSE LET newest == CHOOSE i \in ids : \A k \in ids : row_times[k] <= row_times[i]
         IN  <<newest>> \o NewestFirst(ids \ {newest}, row_times)

\* DatabaseManager.get_recent_analyses: the identifiers of the rows returned
get_recent_analyses(table, row_times, limit) ==
    LET ordered == NewestFirst(DOMAIN table, row_times)
    IN  SubSeq(ordered, 1, Min(limit, Len(ordered)))

\* GET /api/history: one from_db_model per row; an exception of any of them
\* is turned into HTTP 500 by the handler.
get_analysis_history(table, row_times, limit) ==
    LET ids == get_recent_analyses(table, row_times, limit)
        built == [k \in 1..Len(ids) |-> from_db_model(ids[k], table[ids[k]])]
    IN  IF \E k \in 1..Len(ids) : built[k].raises
        THEN [code |-> 500, body |-> <<>>]
        ELSE [code |-> 200, body |-> [k \in 1..Len(ids) |-> built[k].value]]

\* POST /api/analyze, with the clock read for the record's created_at
HistoryStart(j) ==
    /\ start_analysis(j)
    /\ created_at' = StampStatus(created_at, j)

\* the final save of process_analysis, with the clock read for a new row
HistorySave(j) ==
    /\ Save(j)
    /\ created_at' = IF j \in DOMAIN analyses' /\ j \notin DOMAIN analyses
                     THEN StampRow(created_at, j)
                     ELSE created_at

\* the steps of process_analysis that read no clock
HistoryStep(j) ==
    /\ \/ Dispatch(j)
       \/ Capture(j)
       \/ Layout(j)
       \/ Vision(j)
       \/ Suggest(j)
       \/ Report(j)
       \/ Raise(j)
    /\ UNCHANGED created_at

GetHistory(limit) ==
    /\ call.op = "none"
    /\ call' = [op |-> "get_analysis_history", arg |-> limit]
    /\ result' = [done |-> TRUE,
                  value |-> get_analysis_history(analyses, created_at.row, limit)]
    /\ UNCHANGED <<jobVars, scoreVars, screenshots_table, created_at>>

HistoryNext ==
    \/ \E j \in JobIds :
         HistoryStart(j) /\ UNCHANGED <<scoreVars, screenshots_table, callVars>>
    \/ \E j \in JobIds :
         HistoryStep(j) /\ UNCHANGED <<scoreVars, screenshots_table, callVars>>
    \/ \E j \in JobIds :
         HistorySave(j) /\ UNCHANGED <<scoreVars, screenshots_table, callVars>>
    \/ \E limit \in Limits : GetHistory(limit)
    \/ Respond

SpecHistory == Init /\ [][HistoryNext]_vars

\* C21: a history answer holds at most limit records, and of any two records
\* in it the one whose job was submitted later comes first, whichever job
\* finished first.
C21_HistoryNewestFirst ==
    (call.op = "get_analysis_history" /\ result.value.code = 200) =>
        LET body == result.value.body IN
        /\ Len(body) <= call.arg
        /\ \A p \in 1..Len(body), q \in 1..Len(body) :
             p < q => created_at.status[body[p].id] > created_at.status[body[q].id]

-----------------------------------------------------------------------------
(* Several jobs at once *)

\* The record a completed job has, computed from that job's own url and locals
OwnRecord(j, url, l, has_summary) ==
    LET all_issues == AllIssues(l) IN
    [id |-> j, url |-> url, status |-> "completed", progress |-> 100,
     message |-> "Análise concluída", screenshots |-> l.screenshots,
     issues |-> all_issues, recommendations |-> l.recommendations,
     score |-> calculate_scores(all_issues),
     summary |-> IF has_summary
                 THEN create_report(url, all_issues, TRUE).summary ELSE <<>>,
     error |-> None]

\* C22: a step of one job (its submission or a step of its process_analysis)
\* leaves the status record, the locals and the position of every other job
\* unchanged, in every interleaving; the record of a job that completed is the
\* one computed from that job's own url and stage results.
C22_SingleWriter ==
    [][\A j \in JobIds, k \in JobIds :
        /\ (j # k /\ pc'[j] # pc[j])
              => /\ pc'[k] = pc[k]
                 /\ locals'[k] = locals[k]
                 /\ (k \in Submitted) <=> (k \in Submitted')
                 /\ k \in Submitted => active_analyses'[k] = active_analyses[k]
        /\ pc'[k] = "save"
              => \E url \in Urls, has_summary \in BOOLEAN :
                    active_analyses'[k] = OwnRecord(k, url, locals'[k], has_summary)
      ]_vars

\* Two jobs in flight at different stages: one has completed with the two
\* heuristic issues while the other is between its layout and vision stages.
C22_Witness ==
    \E j \in Submitted, k \in Submitted :
        /\ j # k
        /\ pc[j] = "save" /\ active_analyses[j].status = "completed"
        /\ active_analyses[j].issues = <<ViewportIssue, MediaQueryIssue>>
        /\ pc[k] = "vision" /\ active_analyses[k].progress = 50
        /\ active_analyses[k].status = "analyzing"

-----------------------------------------------------------------------------
(* The stylesheet loop of the heuristic stage *)

\* The stylesheet is linked with an href and can be fetched at the href
\* resolved against the page URL.
ReachableLinked(sheet) == sheet.href # "none" /\ sheet.reachable

HasIssueTitled(issues, title) ==
    \E k \in 1..Len(issues) : issues[k].title = title

\* C23: on a fetched page none of whose checks raises, the warning 'No Media
\* Queries Found' is emitted exactly when no linked stylesheet that can be
\* fetched at its href resolved against the page URL (absolute,
\* protocol-relative, root-relative or path-relative) contains '@media';
\* stylesheets whose fetch fails do not change that.
C23_MediaQueryWarning ==
    (LayoutReturned /\ call.arg.fetch_ok /\ call.arg.throws = 0) =>
        LET page == call.arg IN
        HasIssueTitled(result.value, "No Media Queries Found")
            <=> ~\E i \in 1..Len(page.sheets) :
                    ReachableLinked(page.sheets[i]) /\ page.sheets[i].media

-----------------------------------------------------------------------------
(* The pipeline with the page of each layout call on record *)

\* f with the value v at key k
With(f, k, v) == [i \in DOMAIN f \cup {k} |-> IF i = k THEN v ELSE f[i]]

\* The pages of the pipeline and one with a viewport tag, a path-relative
\* stylesheet and a fixed-width element.
FetchPages ==
    Pages \cup {Page(TRUE, TRUE, <<Sheet("path-relative", TRUE, TRUE)>>, 1, 0)}

\* Step 2 of job j; call.arg keeps, per job, the page that requests.get of
\* line 128 met, result.value what analyze_layout returned.
FetchLayout(j) ==
    /\ \E page \in FetchPages :
         /\ LayoutOf(j, page)
         /\ call' = [op |-> "analyze_layout", arg |-> With(call.arg, j, page)]
         /\ result' = [done |-> TRUE,
                       value |-> With(result.value, j, analyze_layout(page))]
    /\ UNCHANGED <<scoreVars, screenshots_table, created_at>>

\* The other steps of job j
FetchStep(j) ==
    /\ \/ start_analysis(j)
       \/ Dispatch(j)
       \/ Capture(j)
       \/ Vision(j)
       \/ Suggest(j)
       \/ Report(j)
       \/ Save(j)
       \/ Raise(j)
    /\ UNCHANGED <<scoreVars, screenshots_table, created_at, callVars>>

FetchNext == \E j \in HttpJobIds : FetchLayout(j) \/ FetchStep(j)

SpecFetch == Init /\ [][FetchNext]_vars

AllHundred == [mobile |-> 100, tablet |-> 100, desktop |-> 100, overall |-> 100]

\* C24: when requests.get of the page fails, analyze_layout returns the empty
\* list and the job goes on to the vision stage in status analyzing; the job
\* that then finishes its stages is completed, and when its capture had failed
\* as well its record has an empty issue list and the scores 100, 100, 100, 100.
C24_FetchFailureTolerated ==
    \A j \in DOMAIN call.arg :
        ~call.arg[j].fetch_ok =>
            /\ result.value[j] = <<>>
            /\ pc[j] = "vision"
                 => /\ active_analyses[j].status = "analyzing"
                    /\ active_analyses[j].progress = 50
                    /\ locals[j].layout_issues = <<>>
            /\ pc[j] \in {"save", "done"}
                 => /\ active_analyses[j].status = "completed"
                    /\ Len(active_analyses[j].screenshots) = 0
                         => /\ active_analyses[j].issues = <<>>
                            /\ active_analyses[j].score = AllHundred

\* The page could not be fetched, the capture had raised, the job completed.
C24_Witness ==
    \E j \in DOMAIN call.arg :
        /\ ~call.arg[j].fetch_ok
        /\ pc[j] = "save" /\ locals[j].capture = "raised"
        /\ active_analyses[j].status = "completed"
        /\ active_analyses[j].issues = <<>>
        /\ active_analyses[j].score = AllHundred

-----------------------------------------------------------------------------
(* Readers of the in-memory table *)

\* The record st carries the results held in the locals l of its job
CarriesResults(st, l) ==
    /\ st.progress = 100
    /\ st.screenshots = l.screenshots
    /\ st.issues = AllIssues(l)
    /\ st.recommendations = l.recommendations
    /\ st.score = calculate_scores(AllIssues(l))
    /\ st.summary \in {<<>>, create_report(st.url, AllIssues(l), TRUE).summary}

\* C25: the step that makes a record of active_analyses completed also gives
\* it progress 100 and the job's screenshots, issues, recommendations, score
\* and summary, and a completed record never changes afterwards; so a GET
\* /api/analysis/{id} answered from active_analyses at any point between the
\* steps of process_analysis that shows status completed shows those results.
C25_CompletedHasResults ==
    [][/\ \A j \in Submitted' :
            active_analyses'[j].status = "completed"
              => IF j \in Submitted /\ active_analyses[j].status = "completed"
                 THEN active_analyses'[j] = active_analyses[j]
                 ELSE CarriesResults(active_analyses'[j], locals[j])
       /\ (Answers("get_analysis_status") /\ call'.arg \in Submitted)
              => LET body == result'.value.body IN
                 /\ result'.value.code = 200
                 /\ body = active_analyses[call'.arg]
                 /\ (body.status = "completed" /\ pc[call'.arg] = "save")
                       => CarriesResults(body, locals[call'.arg])
      ]_vars

\* A GET answered between the last status update of process_analysis and its
\* save: the body is completed and holds the two heuristic issues.
C25_Witness ==
    /\ call.op = "get_analysis_status"
    /\ call.arg \in Submitted
    /\ pc[call.arg] = "save"
    /\ result.value.code = 200
    /\ result.value.body.status = "completed"
    /\ result.value.body.progress = 100
    /\ result.value.body.issues = <<ViewportIssue, MediaQueryIssue>>
    /\ Len(result.value.body.recommendations) = 2

-----------------------------------------------------------------------------
(* Progress of the background task *)

\* One step of the background task of job j: every await of process_analysis
\* returns or raises.
TaskStep(j) ==
    \/ FetchLayout(j)
    \/ /\ \/ Dispatch(j)
          \/ Capture(j)
          \/ Vision(j)
          \/ Suggest(j)
          \/ Report(j)
          \/ Save(j)
          \/ Raise(j)
       /\ UNCHANGED <<scoreVars, screenshots_table, created_at, callVars>>

\* The event loop runs a task whose await has completed: weak fairness of
\* every job's task steps.  Submissions are under no obligation.
SpecLive ==
    /\ Init
    /\ [][FetchNext]_vars
    /\ \A j \in HttpJobIds : WF_vars(TaskStep(j))

\* C26: every job accepted by POST /api/analyze eventually has status
\* completed or error in active_analyses.
C26_EventuallyTerminal ==
    \A j \in HttpJobIds :
        (pc[j] = "queued")
            ~> (j \in Submitted /\ Terminal(active_analyses[j].status))

\* A job has run through all its stages to the end of process_analysis.
C26_Witness ==
    \E j \in HttpJobIds :
        /\ pc[j] = "done"
        /\ j \in DOMAIN call.arg
        /\ active_analyses[j].status = "completed"
        /\ save_calls[j] = 1

-----------------------------------------------------------------------------
(* The issues of the heuristic stage against models.Issue *)

\* C27: every issue the heuristic stage returns is accepted by models.Issue:
\* its type is critical, warning or info, its severity an integer in 1..5 and
\* its device one of mobile, tablet, desktop, 4k; so from_db_model can rebuild
\* a record that holds the stage's issues.
C27_IssuesFitModel ==
    LayoutReturned =>
        /\ \A k \in 1..Len(result.value) : ValidIssue(result.value[k])
        /\ ~from_db_model(1, [InitialStatus(1, "http://site.test")
                                EXCEPT !.issues = result.value]).raises

-----------------------------------------------------------------------------
(* The two scoring functions side by side *)

\* C28: for every list of dict issues, calculate_scores of main.py returns
\* the same four scores as ResponsiveTestingAgent.calculate_scores.
C28_ScoringEquivalent ==
    (/\ scores_out.main_done
     /\ scores_out.agent_done
     /\ \A k \in 1..Len(issues_in) : issues_in[k].py = "dict")
        => scores_out.main = scores_out.agent

-----------------------------------------------------------------------------
(* A completed job read back from the analyses table *)

\* C29: when GET /api/analysis/{id} answers for a completed job from its row
\* of the analyses table, the in-memory table having been lost, the record it
\* returns has status completed, progress 100 and the issues,
\* recommendations, score and summary that were saved at completion.
C29_RoundTrip ==
    [][(/\ Answers("get_analysis_status")
        /\ call'.arg \notin DOMAIN active_analyses
        /\ call'.arg \in DOMAIN analyses
        /\ analyses[call'.arg].status = "completed"
        /\ result'.value.code = 200)
          => LET body == result'.value.body
                 row == analyses[call'.arg]
             IN  /\ body.status = "completed"
                 /\ body.progress = 100
                 /\ body.issues = row.issues
                 /\ body.recommendations = row.recommendations
                 /\ body.score = row.score
                 /\ body.summary = row.summary
      ]_vars

-----------------------------------------------------------------------------
(* The issues of the heuristic stage in the suggestion stage *)

\* The template the four issues of the heuristic stage are expected to get
ExpectedTemplate ==
    (ViewportIssue.title :> "viewport") @@ (MediaQueryIssue.title :> "media_query")
    @@ (FixedWidthIssue.title :> "width") @@ (SmallTextIssue.title :> "font")

\* C30: each issue of the heuristic stage gets its own template from the
\* suggestion stage: the missing viewport the viewport (html) template, the
\* missing media queries the media-query template, the fixed widths the width
\* template and the small text the font template; none gets the generic one.
C30_HeuristicIssuesHaveTemplates ==
    [][\A j \in JobIds :
         (pc[j] = "suggest" /\ pc'[j] = "report")
           => \A k \in 1..Len(locals[j].layout_issues) :
                LET issue == locals[j].layout_issues[k]
                    rec   == locals'[j].recommendations[k]
                IN  /\ issue.title \in DOMAIN ExpectedTemplate
                    /\ rec.title = "Correção: " \o issue.title
                    /\ rec.template = ExpectedTemplate[issue.title]
                    /\ rec.template # "generic"
                    /\ (issue = ViewportIssue => rec.category = "html")
      ]_vars

====
